---- MODULE Spec2Model ----
(***************************************************************************)
(* TaskFlow Agent: the workflow editor and create page of the web client,  *)
(* the sequential node executor behind POST /workflows/:id/execute, and    *)
(* the client's handling of backend responses.                             *)
(*                                                                         *)
(* Texts that contain placeholders (a node's input template, a resolved    *)
(* input) are sequences of tokens: a token is either a piece of plain text *)
(* or one `{{<id>.output}}` placeholder.                                   *)
(***************************************************************************)
EXTENDS Integers, Sequences, FiniteSets, TLC

VARIABLES
    \* ---- edit page (frontend/src/app/workflows/[id]/edit/page.tsx)
    loading,          \* useState(true)
    error,            \* useState('')
    workflow,         \* useState(null): the loaded workflow row
    workflowNodes,    \* useState([]): the ordered node list
    saving,           \* useState(false)
    executing,        \* useState(false)
    testRunPc,        \* position of handleTestRun: idle / update / execute
    testInput,        \* useState('')
    executionResult,  \* useState(null)
    \* ---- create page (CreateWorkflowPage)
    createLoading,    \* useState(false)
    createError,      \* useState('')
    \* ---- observations of the step just taken
    sent,             \* the request the step put on the wire
    alertMsg,         \* the alert() dialog the step opened
    \* ---- one execution of a workflow (backend, POST /workflows/:id/execute)
    execNodes,        \* the ordered node list being executed
    status,           \* pending / running / completed / failed
    position,         \* the position of the node being processed
    nodePc,           \* ready: about to resolve and invoke; invoked: agent running
    results,          \* node id -> stored textual result (NoResult if none)
    invocations,      \* the agent calls made so far, in order
    outcomes,         \* what the agent returned to each call, in order
    output_data,      \* the execution's output_data
    error_message,    \* the execution's error_message
    peer,             \* a second execution, of another workflow, while it waits
    current,          \* which of the two executions the variables above hold
    \* ---- per-user statistics (backend, GET /agents/my-stats?days=N)
    agentExecutions,  \* the agent executions recorded so far
    today,            \* the current day
    userStats,        \* the UserStats the step just taken returned
    \* ---- browser and auth store (frontend/src/store/authStore.ts)
    localToken,       \* localStorage entry 'token'
    token,            \* useAuthStore token
    user,             \* useAuthStore user
    route,            \* the page shown
    \* ---- agent interface (components/AgentInterface)
    agentInput,       \* useState('')
    agentLoading,     \* useState(false)
    agentResult,      \* useState(null)
    \* ---- workflows list page (frontend/src/app/workflows/page.tsx)
    workflows,        \* useState([]): ids of the rows shown
    listLoading,      \* useState(true)
    listError,        \* useState('')
    deletingId,       \* useState(null)
    deletesInFlight,  \* handleDelete calls awaiting workflowApi.delete
    runsInFlight,     \* handleExecute calls awaiting workflowApi.execute
    serverWorkflows,  \* ids of the rows the backend stores
    \* ---- document Q&A page and metrics dashboard
    files,            \* useState(null): files chosen for upload
    uploading,        \* useState(false)
    query,            \* useState('')
    queryLoading,     \* useState(false)
    queryResult,      \* useState('')
    metricsPc,        \* position of fetchMetrics: idle / metrics / stats / done
    lastResponse,     \* the response the step handled
    \* ---- useWorkflows and useWorkflowExecutions
    hookWorkflows,    \* useState([])
    hookLoading,      \* useState(true)
    hookError,        \* useState(null)
    hookExecutions,   \* useState([])
    hookCalls,        \* calls of the hooks' functions awaiting their answer
    hookCreated,      \* workflows the backend created for the hook
    hookExecuted,     \* executions the backend started for the hook
    hookOutcome       \* what the call that just finished returned or threw

createVars == <<createLoading, createError>>
editorVars == <<loading, error, workflow, workflowNodes, saving, executing,
                testRunPc, testInput, executionResult, createVars>>
obsVars == <<sent, alertMsg>>
executionVars == <<execNodes, status, position, nodePc, results, invocations,
                   outcomes, output_data, error_message>>
peerVars == <<peer, current>>
statsVars == <<agentExecutions, today, userStats>>
hookVars == <<hookWorkflows, hookLoading, hookError, hookExecutions, hookCalls,
              hookCreated, hookExecuted, hookOutcome>>
execVars == <<executionVars, peerVars, statsVars, hookVars>>
authVars == <<localToken, token, user, route>>
agentVars == <<agentInput, agentLoading, agentResult>>
listVars == <<workflows, listLoading, listError, deletingId, deletesInFlight,
              runsInFlight, serverWorkflows>>
docVars == <<files, uploading, query, queryLoading, queryResult>>
clientVars == <<authVars, agentVars, listVars, docVars, metricsPc, lastResponse>>
vars == <<editorVars, obsVars, execVars, clientVars>>

\* ------------------------------------------------------------------ bounds
MaxNodes == 2

\* --------------------------------------------------------------- constants
NoRequest == [kind |-> "none"]
NoAlert == ""
Null == [null |-> TRUE]
NoToken == ""
LoginRoute == "/auth/login"
CreateRoute == "/workflows/create"
EditRoute == "/workflows/1/edit"
NoResponse == [endpoint |-> "none", status |-> 0, detail |-> ""]

\* the four node buttons of the editor (edit/page.tsx:312-343)
NodeTypes == {"extractor", "analyzer", "writer", "researcher"}
\* the one of them the modelled user clicks
ClickedTypes == {"extractor"}

\* ----------------------------------------------------------------- tokens
Text(s) == [kind |-> "text", val |-> s]
Ref(id) == [kind |-> "ref", val |-> id]

\* `node_${n}`
NodeId(n) == "node_" \o ToString(n)

\* `{{node_${n}.output}}`
Placeholder(n) == <<Ref(NodeId(n))>>

Node(id, type, prompt, input) ==
    [id |-> id, type |-> type, prompt |-> prompt, input |-> input]

\* a text field's value as the sequence of its characters
Blank == <<>>
Spaces == <<" ", " ">>
Mail == <<"H", "i">>
TestInputs == {Blank, Spaces, Mail}

\* String.prototype.trim(): drop the white space at both ends
RECURSIVE TrimStart(_)
TrimStart(s) ==
    IF s # <<>> /\ Head(s) = " " THEN TrimStart(Tail(s)) ELSE s

RECURSIVE TrimEnd(_)
TrimEnd(s) ==
    IF s # <<>> /\ s[Len(s)] = " " THEN TrimEnd(SubSeq(s, 1, Len(s) - 1)) ELSE s

Trim(s) == TrimEnd(TrimStart(s))

\* ------------------------------------------------------------- responses
\* what the backend (or the network) answers to a request
OkResponse == [ok |-> TRUE, status |-> 200, detail |-> ""]
Unauthorized == [ok |-> FALSE, status |-> 401, detail |-> "Could not validate credentials"]
ServerError == [ok |-> FALSE, status |-> 500, detail |-> ""]
FailResponses == {Unauthorized, ServerError}
Responses == {OkResponse} \cup FailResponses

\* err.response?.data?.detail || fallback
DetailOr(resp, fallback) == IF resp.detail # "" THEN resp.detail ELSE fallback

\* -------------------------------------------------------------- templates
Templates == {"email_summarizer", "content_generator", "data_analyzer",
              "customer_support", "meeting_notes", "code_reviewer"}

\* getTemplateNodes: the prompts are cut to their first words
getTemplateNodes(template) ==
    CASE template = "email_summarizer" ->
           << Node("node_1", "extractor", "Extract the following from the email", <<>>),
              Node("node_2", "analyzer", "Analyze the extracted email information", Placeholder(1)),
              Node("node_3", "writer", "Generate a professional 2-3 sentence summary", Placeholder(2)) >>
      [] template = "content_generator" ->
           << Node("node_1", "researcher", "Research the given topic", <<>>),
              Node("node_2", "writer", "Write a comprehensive, engaging article", Placeholder(1)) >>
      [] template = "data_analyzer" ->
           << Node("node_1", "extractor", "Extract and structure the data", <<>>),
              Node("node_2", "analyzer", "Analyze the extracted data", Placeholder(1)),
              Node("node_3", "writer", "Create a clear, actionable report", Placeholder(2)) >>
      [] template = "customer_support" ->
           << Node("node_1", "analyzer", "Analyze the customer inquiry", <<>>),
              Node("node_2", "writer", "Generate a professional, empathetic response", Placeholder(1)) >>
      [] template = "meeting_notes" ->
           << Node("node_1", "extractor", "Extract from meeting transcript", <<>>),
              Node("node_2", "writer", "Create structured meeting notes", Placeholder(1)) >>
      [] template = "code_reviewer" ->
           << Node("node_1", "analyzer", "Analyze the code", <<>>),
              Node("node_2", "writer", "Generate a detailed code review", Placeholder(1)) >>
      [] OTHER -> <<>>

\* the nodes the Quick Setup button installs
EmailSummarizerNodes ==
    << Node("node_1", "extractor", "Extract the following from the email", <<>>),
       Node("node_2", "analyzer", "Analyze the extracted email information", Placeholder(1)),
       Node("node_3", "writer", "Generate a professional 2-3 sentence summary", Placeholder(2)) >>

\* ------------------------------------------------------------------ edges
\* slice(0, -2) in place of slice(0, -1)
SliceDropTwo(nodes) == SubSeq(nodes, 1, Len(nodes) - 2)

\* Array.prototype.slice(0, -1): all elements but the last
SliceDropLast(nodes) == SubSeq(nodes, 1, Len(nodes) - 1)

\* the target taken at index in place of index + 1
BuildEdgesSelfTarget(nodes) ==
    [k \in 1..Len(SliceDropLast(nodes)) |->
        [id |-> "edge_" \o ToString(k),
         source |-> SliceDropLast(nodes)[k].id,
         target |-> nodes[k].id]]

\* nodes.slice(0, -1).map((node, index) => ({id: `edge_${index + 1}`,
\*   source: node.id, target: nodes[index + 1].id})); positions count from 1
BuildEdges(nodes) ==
    [k \in 1..Len(SliceDropLast(nodes)) |->
        [id |-> "edge_" \o ToString(k),
         source |-> SliceDropLast(nodes)[k].id,
         target |-> nodes[k + 1].id]]

WorkflowData(nodes) == [nodes |-> nodes, edges |-> BuildEdges(nodes)]

\* the header the request interceptor of the shared axios client adds for the
\* localStorage entry it finds ("" stands for no header)
AuthorizationHeader(stored) ==
    IF stored # NoToken THEN "Bearer " \o stored ELSE ""

\* workflowApi.create / workflowApi.update
Request(kind, nodes) ==
    [kind |-> kind, workflow_data |-> WorkflowData(nodes),
     authorization |-> AuthorizationHeader(localToken)]

\* workflowApi.execute of the edit page
ExecuteRequest(text) ==
    [kind |-> "execute", input_data |-> [text |-> text],
     authorization |-> AuthorizationHeader(localToken)]

\* the answer a step handled: the endpoint asked, the status and the error
\* text of the response
Answer(endpoint, resp) ==
    [endpoint |-> endpoint, status |-> resp.status, detail |-> resp.detail]

\* a step of the edit or create page that handles no response
EditorStep ==
    /\ lastResponse' = NoResponse
    /\ UNCHANGED createVars
    /\ UNCHANGED <<authVars, agentVars, listVars, docVars, metricsPc>>

\* a step of the edit page that handles the response to `endpoint`
EditorAnswered(endpoint, resp) ==
    /\ lastResponse' = Answer(endpoint, resp)
    /\ UNCHANGED createVars
    /\ UNCHANGED <<authVars, agentVars, listVars, docVars, metricsPc>>

\* ============================================================ edit page
WorkflowNames == {"Email digest", "Weekly report"}

\* workflow.name.toLowerCase().includes('email')
NameIncludesEmail(name) == name = "Email digest"

\* node lists a stored workflow can hold when the editor opens it: the ones
\* the create page stores
LoadedNodeLists == {getTemplateNodes(t) : t \in {"", "content_generator"}}

\* what the user types into a node's fields
TypedPrompt == "Summarize the text"
TypedInput == <<Ref(NodeId(1)), Text(" and "), Ref(NodeId(1))>>

\* the editor is rendered (not the spinner, not the error view)
EditorShown == ~loading /\ error = "" /\ workflow # Null

Quiet == sent' = NoRequest /\ alertMsg' = NoAlert

\* fetchWorkflow, after workflowApi.get answered
FetchWorkflowDone(resp, name, nodes) ==
    /\ loading
    /\ IF resp.ok
       THEN /\ workflow' = [name |-> name]
            /\ workflowNodes' = nodes
            /\ error' = error
       ELSE /\ error' = DetailOr(resp, "Failed to load workflow")
            /\ UNCHANGED <<workflow, workflowNodes>>
    /\ loading' = FALSE
    /\ Quiet
    /\ UNCHANGED <<saving, executing, testRunPc, testInput, executionResult>>
    /\ EditorAnswered("workflows/get", resp)
    /\ UNCHANGED execVars

\* the node addNode builds for the current list
NewNode(nodes, type) ==
    Node(NodeId(Len(nodes) + 1), type, "",
         IF Len(nodes) > 0 THEN Placeholder(Len(nodes)) ELSE <<>>)

addNode(type) ==
    /\ EditorShown
    /\ Len(workflowNodes) < MaxNodes
    /\ workflowNodes' = Append(workflowNodes, NewNode(workflowNodes, type))
    /\ Quiet
    /\ UNCHANGED <<loading, error, workflow, saving, executing, testRunPc,
                   testInput, executionResult>>
    /\ EditorStep
    /\ UNCHANGED execVars

\* workflowNodes.filter(n => n.id !== nodeId)
FilterOut(nodes, nodeId) == SelectSeq(nodes, LAMBDA n : n.id # nodeId)

removeNode(nodeId) ==
    /\ EditorShown
    /\ \E i \in 1..Len(workflowNodes) : workflowNodes[i].id = nodeId
    /\ workflowNodes' = FilterOut(workflowNodes, nodeId)
    /\ Quiet
    /\ UNCHANGED <<loading, error, workflow, saving, executing, testRunPc,
                   testInput, executionResult>>
    /\ EditorStep
    /\ UNCHANGED execVars

\* workflowNodes.map(node => node.id === nodeId ? {...node, [field]: value} : node)
SetConfig(nodes, nodeId, field, value) ==
    [i \in 1..Len(nodes) |->
        IF nodes[i].id = nodeId
        THEN IF field = "prompt" THEN [nodes[i] EXCEPT !.prompt = value]
                                 ELSE [nodes[i] EXCEPT !.input = value]
        ELSE nodes[i]]

\* the prompt box is shown for every node, the input box from the second on
updateNodeConfig(i, field, value) ==
    /\ EditorShown
    /\ i \in 1..Len(workflowNodes)
    /\ field = "input" => i > 1
    /\ workflowNodes' = SetConfig(workflowNodes, workflowNodes[i].id, field, value)
    /\ Quiet
    /\ UNCHANGED <<loading, error, workflow, saving, executing, testRunPc,
                   testInput, executionResult>>
    /\ EditorStep
    /\ UNCHANGED execVars

\* the Quick Setup button is shown for an empty list and an 'email' name
setupEmailSummarizer ==
    /\ EditorShown
    /\ Len(workflowNodes) = 0
    /\ NameIncludesEmail(workflow.name)
    /\ workflowNodes' = EmailSummarizerNodes
    /\ Quiet
    /\ UNCHANGED <<loading, error, workflow, saving, executing, testRunPc,
                   testInput, executionResult>>
    /\ EditorStep
    /\ UNCHANGED execVars

\* the test input box: shown when there are nodes, disabled while executing
setTestInput(value) ==
    /\ EditorShown
    /\ Len(workflowNodes) > 0
    /\ ~executing
    /\ testInput' = value
    /\ Quiet
    /\ UNCHANGED <<loading, error, workflow, workflowNodes, saving, executing,
                   testRunPc, executionResult>>
    /\ EditorStep
    /\ UNCHANGED execVars

\* handleSave up to its await: the Save button is disabled while saving
handleSave ==
    /\ EditorShown
    /\ ~saving
    /\ saving' = TRUE
    /\ sent' = Request("update", workflowNodes)
    /\ alertMsg' = NoAlert
    /\ UNCHANGED <<loading, error, workflow, workflowNodes, executing, testRunPc,
                   testInput, executionResult>>
    /\ EditorStep
    /\ UNCHANGED execVars

\* handleSave after workflowApi.update answered
handleSaveDone(resp) ==
    /\ saving
    /\ alertMsg' = IF resp.ok
                   THEN "Workflow saved successfully! You can now run it from the workflows list."
                   ELSE DetailOr(resp, "Failed to save workflow")
    /\ saving' = FALSE
    /\ sent' = NoRequest
    /\ UNCHANGED <<loading, error, workflow, workflowNodes, executing, testRunPc,
                   testInput, executionResult>>
    /\ EditorAnswered("update", resp)
    /\ UNCHANGED execVars

\* handleTestRun up to its first await
handleTestRun ==
    /\ EditorShown
    /\ Len(workflowNodes) > 0
    /\ ~executing
    /\ IF Trim(testInput) = <<>>
       THEN /\ alertMsg' = "Please enter test input (e.g., an email to summarize)"
            /\ sent' = NoRequest
            /\ UNCHANGED <<executing, testRunPc, executionResult>>
       ELSE /\ executing' = TRUE
            /\ executionResult' = Null
            /\ sent' = Request("update", workflowNodes)
            /\ testRunPc' = "update"
            /\ alertMsg' = NoAlert
    /\ UNCHANGED <<loading, error, workflow, workflowNodes, saving, testInput>>
    /\ EditorStep
    /\ UNCHANGED execVars

\* the workflow is executed whatever workflowApi.update answered
handleTestRunUpdatedRegardless(resp) ==
    /\ testRunPc = "update"
    /\ sent' = ExecuteRequest(testInput)
    /\ testRunPc' = "execute"
    /\ alertMsg' = NoAlert
    /\ UNCHANGED executing
    /\ UNCHANGED <<loading, error, workflow, workflowNodes, saving, testInput,
                   executionResult>>
    /\ EditorAnswered("update", resp)
    /\ UNCHANGED execVars

\* handleTestRun after workflowApi.update answered
handleTestRunUpdated(resp) ==
    /\ testRunPc = "update"
    /\ IF resp.ok
       THEN /\ sent' = ExecuteRequest(testInput)
            /\ testRunPc' = "execute"
            /\ alertMsg' = NoAlert
            /\ UNCHANGED executing
       ELSE /\ alertMsg' = DetailOr(resp, "Failed to execute workflow")
            /\ sent' = NoRequest
            /\ testRunPc' = "idle"
            /\ executing' = FALSE
    /\ UNCHANGED <<loading, error, workflow, workflowNodes, saving, testInput,
                   executionResult>>
    /\ EditorAnswered("update", resp)
    /\ UNCHANGED execVars

ExecutionStatuses == {"pending", "running", "completed", "failed"}

\* handleTestRun after workflowApi.execute answered
handleTestRunExecuted(resp, resultStatus) ==
    /\ testRunPc = "execute"
    /\ IF resp.ok
       THEN /\ executionResult' = [status |-> resultStatus]
            /\ alertMsg' =
                 CASE resultStatus = "completed" -> "Workflow completed successfully! Check results below."
                   [] resultStatus = "failed" -> "Workflow failed. Check error details below."
                   [] OTHER -> "Workflow execution started! Status: " \o resultStatus
       ELSE /\ alertMsg' = DetailOr(resp, "Failed to execute workflow")
            /\ UNCHANGED executionResult
    /\ sent' = NoRequest
    /\ testRunPc' = "idle"
    /\ executing' = FALSE
    /\ UNCHANGED <<loading, error, workflow, workflowNodes, saving, testInput>>
    /\ EditorAnswered("execute", resp)
    /\ UNCHANGED execVars

\* =========================================================== create page
\* a blank template falls back on the email summarizer
SubmitNodesDefaulting(template) ==
    IF template # "" THEN getTemplateNodes(template)
    ELSE getTemplateNodes("email_summarizer")

\* handleSubmit: formData.template ? getTemplateNodes(formData.template) : []
SubmitNodes(template) == IF template # "" THEN getTemplateNodes(template) ELSE <<>>

\* handleSubmit up to its await: the submit button is disabled while loading
handleSubmit(template) ==
    /\ route = CreateRoute
    /\ ~createLoading
    /\ createError' = ""
    /\ createLoading' = TRUE
    /\ sent' = Request("create", SubmitNodes(template))
    /\ alertMsg' = NoAlert
    /\ lastResponse' = NoResponse
    /\ UNCHANGED <<loading, error, workflow, workflowNodes, saving, executing,
                   testRunPc, testInput, executionResult>>
    /\ UNCHANGED <<authVars, agentVars, listVars, docVars, metricsPc>>
    /\ UNCHANGED execVars

\* handleSubmit after workflowApi.create answered: router.push to the edit
\* page of the new workflow, whose mount effect fetches it; or the error
\* banner; setLoading(false) either way
handleSubmitDone(resp) ==
    /\ route = CreateRoute
    /\ createLoading
    /\ lastResponse' = Answer("create", resp)
    /\ IF resp.ok
       THEN /\ route' = EditRoute
            /\ sent' = [kind |-> "workflows/get",
                        authorization |-> AuthorizationHeader(localToken)]
            /\ UNCHANGED createError
       ELSE /\ createError' = DetailOr(resp, "Failed to create workflow")
            /\ sent' = NoRequest
            /\ UNCHANGED route
    /\ createLoading' = FALSE
    /\ alertMsg' = NoAlert
    /\ UNCHANGED <<loading, error, workflow, workflowNodes, saving, executing,
                   testRunPc, testInput, executionResult>>
    /\ UNCHANGED <<localToken, token, user, agentVars, listVars, docVars, metricsPc>>
    /\ UNCHANGED execVars

\* ================================================ sequential node executor
\* The executor runs in the backend; it is modelled from section 4.1 of the
\* specification.

MaxExecNodes == 2

NoResult == [kind |-> "none", val |-> ""]
NoOutput == [kind |-> "null", val |-> ""]
Failure(err) == [kind |-> "error", val |-> err]

\* texts an agent can answer with, and errors it can fail with
AgentOutputs == {Text("alpha"), Text("beta")}
AgentErrors == {"LLM timeout", "model not loaded"}

ExecIds == {NodeId(k) : k \in 1..MaxExecNodes} \cup {"node_1", "node_2", "node_3"}

\* input templates a stored node can hold
ExecInputs == {<<>>, TypedInput} \cup {Placeholder(k) : k \in 1..MaxExecNodes}

\* node lists a stored workflow can hold: the templates of the create page and
\* the lists the editor can save (ids may repeat, references may dangle)
ExecNodeLists ==
    {getTemplateNodes(t) : t \in Templates \cup {""}}
    \cup UNION {[1..n -> {Node(NodeId(k), "writer", TypedPrompt, input) :
                            k \in 1..MaxExecNodes, input \in ExecInputs}] :
                n \in 1..MaxExecNodes}

\* no execution exists
ExecIdle ==
    /\ execNodes = <<>>
    /\ status = "none"
    /\ position = 0
    /\ nodePc = "ready"
    /\ results = [id \in ExecIds |-> NoResult]
    /\ invocations = <<>>
    /\ outcomes = <<>>
    /\ output_data = NoOutput
    /\ error_message = ""

\* an execution as a record of its fields
Execution(nodes, st, pos, pc, stored, calls, outs, out, err) ==
    [execNodes |-> nodes, status |-> st, position |-> pos, nodePc |-> pc,
     results |-> stored, invocations |-> calls, outcomes |-> outs,
     output_data |-> out, error_message |-> err]

NoExecution ==
    Execution(<<>>, "none", 0, "ready", [id \in ExecIds |-> NoResult], <<>>, <<>>,
              NoOutput, "")

\* there is no second execution
PeerIdle == peer = NoExecution /\ current = 1

\* the execution row is created for the stored node list
ExecInit ==
    /\ execNodes \in ExecNodeLists
    /\ status = "pending"
    /\ position = 0
    /\ nodePc = "ready"
    /\ results = [id \in ExecIds |-> NoResult]
    /\ invocations = <<>>
    /\ outcomes = <<>>
    /\ output_data = NoOutput
    /\ error_message = ""

\* a placeholder token whose node has a stored result becomes that result
SubstituteToken(tk, stored) ==
    IF tk.kind = "ref" /\ tk.val \in DOMAIN stored /\ stored[tk.val] # NoResult
    THEN stored[tk.val]
    ELSE tk

\* only the first occurrence of a placeholder is replaced
SubstituteFirstOnly(template, stored) ==
    [j \in 1..Len(template) |->
        IF \E i \in 1..(j - 1) : template[i] = template[j]
        THEN template[j]
        ELSE SubstituteToken(template[j], stored)]

\* every placeholder of the template that names a computed node is replaced
Substitute(template, stored) ==
    [j \in 1..Len(template) |-> SubstituteToken(template[j], stored)]

StatusOnStart == "running"
StatusOnSuccess == "completed"
\* a failed execution put back in the queue
StatusOnFailureRequeued == "pending"
StatusOnFailure == "failed"

\* the pass begins
StartExecution ==
    /\ status = "pending"
    /\ status' = StatusOnStart
    /\ position' = 1
    /\ UNCHANGED <<execNodes, nodePc, results, invocations, outcomes,
                   output_data, error_message>>
    /\ UNCHANGED <<peerVars, statsVars, hookVars>>
    /\ UNCHANGED <<editorVars, obsVars, clientVars>>

\* a node is skipped
NextPositionSkipping(i) == i + 2

\* the position processed after the node at position i
NextPosition(i) == i + 1

\* the agent call made for the node at position i
Invocation(i, nodes, stored) ==
    [position |-> i, id |-> nodes[i].id, type |-> nodes[i].type,
     prompt |-> nodes[i].prompt, input |-> Substitute(nodes[i].input, stored)]

\* resolve the placeholders of the node at `position` and invoke its agent
InvokeNode ==
    /\ status = "running"
    /\ nodePc = "ready"
    /\ position \in 1..Len(execNodes)
    /\ invocations' = Append(invocations, Invocation(position, execNodes, results))
    /\ nodePc' = "invoked"
    /\ UNCHANGED <<execNodes, status, position, results, outcomes, output_data,
                   error_message>>
    /\ UNCHANGED <<peerVars, statsVars, hookVars>>
    /\ UNCHANGED <<editorVars, obsVars, clientVars>>

\* the agent answered: record the result keyed by the node's id
RecordResult(text) ==
    /\ status = "running"
    /\ nodePc = "invoked"
    /\ results' = [results EXCEPT ![execNodes[position].id] = text]
    /\ outcomes' = Append(outcomes, text)
    /\ position' = NextPosition(position)
    /\ nodePc' = "ready"
    /\ UNCHANGED <<execNodes, status, invocations, output_data, error_message>>
    /\ UNCHANGED <<peerVars, statsVars, hookVars>>
    /\ UNCHANGED <<editorVars, obsVars, clientVars>>

\* the results computed before the failure are exposed
OutputOnFailurePartial(stored, nodes) == stored[nodes[1].id]

\* what a failed execution exposes as output_data
OutputOnFailure(stored, nodes) == NoOutput

\* the agent failed: the whole execution fails with that error
NodeFails(err) ==
    /\ status = "running"
    /\ nodePc = "invoked"
    /\ status' = StatusOnFailure
    /\ error_message' = err
    /\ outcomes' = Append(outcomes, Failure(err))
    /\ output_data' = OutputOnFailure(results, execNodes)
    /\ nodePc' = "ready"
    /\ UNCHANGED <<execNodes, position, results, invocations>>
    /\ UNCHANGED <<peerVars, statsVars, hookVars>>
    /\ UNCHANGED <<editorVars, obsVars, clientVars>>

\* the result of the first node in place of the last
FinalOutputFirst(nodes, stored) ==
    IF Len(nodes) = 0 THEN NoOutput ELSE stored[nodes[1].id]

\* the result of the final node; nothing for an empty node list
FinalOutput(nodes, stored) ==
    IF Len(nodes) = 0 THEN NoOutput ELSE stored[nodes[Len(nodes)].id]

\* every node has a result: the execution completes with the final one
CompleteExecution ==
    /\ status = "running"
    /\ nodePc = "ready"
    /\ position > Len(execNodes)
    /\ status' = StatusOnSuccess
    /\ output_data' = FinalOutput(execNodes, results)
    /\ UNCHANGED <<execNodes, position, nodePc, results, invocations, outcomes,
                   error_message>>
    /\ UNCHANGED <<peerVars, statsVars, hookVars>>
    /\ UNCHANGED <<editorVars, obsVars, clientVars>>

\* ================================================== concurrent executions
\* Two executions of different workflows, modelled from section 5 of the
\* specification: each execution has its own fields and its own results; the
\* variables hold the execution that takes the next step, `peer` the other.

\* node lists of the two workflows: their nodes bear the same ids
ConcurrentNodeLists ==
    {getTemplateNodes("content_generator"), getTemplateNodes("customer_support")}

\* the execution the variables hold, as a record
Running ==
    Execution(execNodes, status, position, nodePc, results, invocations, outcomes,
              output_data, error_message)

\* the execution row created for a node list
Pending(nodes) ==
    Execution(nodes, "pending", 0, "ready", [id \in ExecIds |-> NoResult], <<>>, <<>>,
              NoOutput, "")

\* one result store serves both executions
ResumedResultsShared(waiting) == results

\* the results the resumed execution goes on with: its own
ResumedResults(waiting) == waiting.results

\* the other execution takes the next step
SwitchExecution ==
    /\ peer.status # "none"
    /\ peer' = Running
    /\ execNodes' = peer.execNodes
    /\ status' = peer.status
    /\ position' = peer.position
    /\ nodePc' = peer.nodePc
    /\ results' = ResumedResults(peer)
    /\ invocations' = peer.invocations
    /\ outcomes' = peer.outcomes
    /\ output_data' = peer.output_data
    /\ error_message' = peer.error_message
    /\ current' = IF current = 1 THEN 2 ELSE 1
    /\ UNCHANGED <<statsVars, hookVars>>
    /\ UNCHANGED <<editorVars, obsVars, clientVars>>

\* ==================================================== per-user statistics
\* GET /agents/my-stats?days=N is answered by the backend; it is modelled
\* from sections 2 (UserStats) and 8(d) of the specification.

MaxLog == 2
MaxDay == 2

StatUsers == {"ada", "bob"}
ResponseTimes == {100, 300}
WindowDays == {1, 2}

NoStats ==
    [user |-> "", period_days |-> 0, total_executions |-> 0, success_rate |-> 0,
     avg_response_time_ms |-> 0]

\* nothing is recorded and nothing was asked
StatsIdle ==
    /\ agentExecutions = <<>>
    /\ today = 0
    /\ userStats = NoStats

\* every execution counts, whatever its day
InWindowAlways(e, days, now) == TRUE

\* the execution lies in the trailing window of `days` days that ends `now`
InWindow(e, days, now) == now - e.day < days

\* the executions of the user that lie in the window
UserExecutions(log, usr, days, now) ==
    SelectSeq(log, LAMBDA e : e.user = usr /\ InWindow(e, days, now))

RECURSIVE SumMs(_)
SumMs(log) == IF log = <<>> THEN 0 ELSE Head(log).ms + SumMs(Tail(log))

Successes(log) == Len(SelectSeq(log, LAMBDA e : e.ok))

\* the aggregates of the user over the window: the rate in percent, the
\* time in milliseconds, both rounded down, and 0 where nothing was executed
UserStats(log, usr, days, now) ==
    LET mine == UserExecutions(log, usr, days, now)
    IN [user |-> usr, period_days |-> days, total_executions |-> Len(mine),
        success_rate |-> IF Len(mine) = 0 THEN 0
                         ELSE (100 * Successes(mine)) \div Len(mine),
        avg_response_time_ms |-> IF Len(mine) = 0 THEN 0
                                 ELSE SumMs(mine) \div Len(mine)]

\* an agent execution of the user ends and is recorded
RecordExecution(usr, ok, ms) ==
    /\ Len(agentExecutions) < MaxLog
    /\ agentExecutions' =
          Append(agentExecutions, [user |-> usr, day |-> today, ok |-> ok, ms |-> ms])
    /\ userStats' = NoStats
    /\ UNCHANGED today
    /\ UNCHANGED <<executionVars, peerVars, hookVars>>
    /\ UNCHANGED <<editorVars, obsVars, clientVars>>

DayPasses ==
    /\ today < MaxDay
    /\ today' = today + 1
    /\ userStats' = NoStats
    /\ UNCHANGED agentExecutions
    /\ UNCHANGED <<executionVars, peerVars, hookVars>>
    /\ UNCHANGED <<editorVars, obsVars, clientVars>>

\* GET /agents/my-stats?days=N of the user
GetMyStats(usr, days) ==
    /\ userStats' = UserStats(agentExecutions, usr, days, today)
    /\ UNCHANGED <<agentExecutions, today>>
    /\ UNCHANGED <<executionVars, peerVars, hookVars>>
    /\ UNCHANGED <<editorVars, obsVars, clientVars>>

\* ================================================== browser-side client
MaxWorkflows == 2

NoUser == ""
NoId == 0
NoAgentResult == [kind |-> "null"]

Tokens == {"tokenA", "tokenB"}
Users == {"ada"}
WorkflowIds == 1..MaxWorkflows

AgentRoute == "/agents/email-summarizer"
\* a page that mounts AgentInterface with an agentId for which
\* generateDemoResult has no entry (the pages of the repository all pass one
\* that has)
PlainAgentRoute == "/agents/translator"
AgentRoutes == {AgentRoute, PlainAgentRoute}
Routes == {LoginRoute, "/dashboard", "/workflows", AgentRoute, PlainAgentRoute,
           "/agents/document-qa", "/metrics", EditRoute, CreateRoute}

\* fetch() rejected: no response at all
NetworkError == [ok |-> FALSE, status |-> 0, detail |-> ""]
ClientResponses == Responses \cup {NetworkError}

\* the header built from the token of the auth store
AxiosRequestFromStore(endpoint) ==
    [kind |-> endpoint, authorization |-> AuthorizationHeader(token)]

\* the request interceptor of the shared axios client
AxiosRequest(endpoint) ==
    [kind |-> endpoint, authorization |-> AuthorizationHeader(localToken)]

\* fetch with the header `Bearer ${token}` built by the page
FetchRequest(endpoint, tok) ==
    [kind |-> endpoint,
     authorization |-> "Bearer " \o (IF tok = NoToken THEN "null" ELSE tok)]

\* the ids of a set in ascending order
RECURSIVE SortedIds(_)
SortedIds(ids) ==
    IF ids = {} THEN <<>>
    ELSE LET least == CHOOSE x \in ids : \A y \in ids : x <= y
         IN <<least>> \o SortedIds(ids \ {least})

\* the state of the pages before they are shown
PagesIdle ==
    /\ agentInput = Blank
    /\ agentLoading = FALSE
    /\ agentResult = NoAgentResult
    /\ workflows = <<>>
    /\ listLoading = TRUE
    /\ listError = ""
    /\ deletingId = NoId
    /\ deletesInFlight = {}
    /\ runsInFlight = {}
    /\ files = FALSE
    /\ uploading = FALSE
    /\ query = Blank
    /\ queryLoading = FALSE
    /\ queryResult = ""
    /\ metricsPc = "idle"

\* nobody is logged in and the page `page` is shown
ClientAt(page) ==
    /\ localToken = NoToken
    /\ token = NoToken
    /\ user = NoUser
    /\ route = page
    /\ serverWorkflows = WorkflowIds
    /\ lastResponse = NoResponse
    /\ PagesIdle

ClientIdle == ClientAt(LoginRoute)

\* no request of the page shown awaits its answer
NothingInFlight ==
    /\ ~agentLoading
    /\ ~(route = "/workflows" /\ listLoading)
    /\ deletesInFlight = {}
    /\ runsInFlight = {}
    /\ ~uploading
    /\ ~queryLoading
    /\ metricsPc \in {"idle", "done"}
    /\ ~(route = EditRoute /\ loading)
    /\ ~saving
    /\ ~executing
    /\ ~createLoading

\* isAuthenticated: () => !!get().token
isAuthenticated == token # NoToken

\* setAuth, called by the login page
setAuth(tok, usr) ==
    /\ route = LoginRoute
    /\ localToken' = tok
    /\ token' = tok
    /\ user' = usr
    /\ lastResponse' = NoResponse
    /\ Quiet
    /\ UNCHANGED <<route, agentVars, listVars, docVars, metricsPc>>
    /\ UNCHANGED <<editorVars, execVars>>

\* a page left is unmounted: its state is gone
Unmounted ==
    /\ agentInput' = Blank
    /\ agentLoading' = FALSE
    /\ agentResult' = NoAgentResult
    /\ workflows' = <<>>
    /\ listError' = ""
    /\ deletingId' = NoId
    /\ deletesInFlight' = {}
    /\ runsInFlight' = {}
    /\ files' = FALSE
    /\ uploading' = FALSE
    /\ query' = Blank
    /\ queryLoading' = FALSE
    /\ queryResult' = ""
    /\ loading' = TRUE
    /\ error' = ""
    /\ workflow' = Null
    /\ workflowNodes' = <<>>
    /\ saving' = FALSE
    /\ executing' = FALSE
    /\ testRunPc' = "idle"
    /\ testInput' = Blank
    /\ executionResult' = Null
    /\ createLoading' = FALSE
    /\ createError' = ""

\* the Logout button of the dashboard: clearAuth, then router.push
Logout ==
    /\ route = "/dashboard"
    /\ user # NoUser
    /\ localToken' = NoToken
    /\ token' = NoToken
    /\ user' = NoUser
    /\ route' = LoginRoute
    /\ lastResponse' = NoResponse
    /\ Quiet
    /\ UNCHANGED <<agentVars, listVars, docVars, metricsPc>>
    /\ UNCHANGED <<editorVars, execVars>>

\* the user opens a page between two requests; the page's mount effect runs:
\* dashboard and workflows redirect without a store token, metrics without a
\* store user; workflows, metrics and the edit page start their fetch
Navigate(target) ==
    /\ NothingInFlight
    /\ target # route
    /\ Unmounted
    /\ route' = CASE target \in {"/dashboard", "/workflows"} /\ ~isAuthenticated -> LoginRoute
                  [] target = "/metrics" /\ user = NoUser -> LoginRoute
                  [] OTHER -> target
    /\ listLoading' = TRUE
    /\ metricsPc' = IF target = "/metrics" /\ user # NoUser THEN "metrics" ELSE "idle"
    /\ sent' = CASE target = "/workflows" /\ isAuthenticated -> AxiosRequest("workflows/list")
                 [] target = "/metrics" /\ user # NoUser -> FetchRequest("agents/metrics", localToken)
                 [] target = EditRoute -> AxiosRequest("workflows/get")
                 [] OTHER -> NoRequest
    /\ alertMsg' = NoAlert
    /\ lastResponse' = NoResponse
    /\ UNCHANGED <<localToken, token, user, serverWorkflows>>
    /\ UNCHANGED execVars

\* ---------------------------------------------------------- agent interface
\* the input box is disabled while loading
setInput(value) ==
    /\ route \in AgentRoutes
    /\ ~agentLoading
    /\ agentInput' = value
    /\ lastResponse' = NoResponse
    /\ Quiet
    /\ UNCHANGED <<authVars, agentLoading, agentResult, listVars, docVars, metricsPc>>
    /\ UNCHANGED <<editorVars, execVars>>

\* the token read from localStorage is not examined
agentHandleExecuteUnchecked ==
    /\ route \in AgentRoutes
    /\ ~agentLoading
    /\ lastResponse' = NoResponse
    /\ IF Trim(agentInput) = <<>>
       THEN /\ alertMsg' = "Please enter some input text"
            /\ sent' = NoRequest
            /\ UNCHANGED <<route, agentVars>>
       ELSE /\ agentLoading' = TRUE
            /\ agentResult' = NoAgentResult
            /\ sent' = FetchRequest("agents/execute", localToken)
            /\ alertMsg' = NoAlert
            /\ UNCHANGED <<route, agentInput>>
    /\ UNCHANGED <<localToken, token, user, listVars, docVars, metricsPc>>
    /\ UNCHANGED <<editorVars, execVars>>

\* handleExecute of the agent interface up to its fetch
agentHandleExecute ==
    /\ route \in AgentRoutes
    /\ ~agentLoading
    /\ lastResponse' = NoResponse
    /\ IF Trim(agentInput) = <<>>
       THEN /\ alertMsg' = "Please enter some input text"
            /\ sent' = NoRequest
            /\ UNCHANGED <<route, agentVars>>
       ELSE IF localToken = NoToken
       THEN /\ alertMsg' = "Not logged in. Please login again."
            /\ sent' = NoRequest
            /\ route' = LoginRoute
            /\ agentResult' = NoAgentResult
            /\ agentLoading' = FALSE
            /\ UNCHANGED agentInput
       ELSE /\ agentLoading' = TRUE
            /\ agentResult' = NoAgentResult
            /\ sent' = FetchRequest("agents/execute", localToken)
            /\ alertMsg' = NoAlert
            /\ UNCHANGED <<route, agentInput>>
    /\ UNCHANGED <<localToken, token, user, listVars, docVars, metricsPc>>
    /\ UNCHANGED <<editorVars, execVars>>

\* the agentId the page of the route passes to AgentInterface
AgentIdOf(r) ==
    CASE r = AgentRoute -> "email-summarizer"
      [] r = PlainAgentRoute -> "translator"
      [] OTHER -> "unknown"

\* the keys of the `results` table of generateDemoResult
CannedAgentIds == {"email-summarizer", "content-generator", "data-analyzer",
                   "customer-support", "code-reviewer", "meeting-notes"}

\* the table is not consulted
generateDemoResultGeneric(agentId) ==
    [kind |-> "result", demo_mode |-> TRUE,
     output |-> "Agent executed successfully in demo mode", message |-> ""]

\* generateDemoResult: the canned result of the agent id, or the generic one
generateDemoResult(agentId) ==
    IF agentId \in CannedAgentIds
    THEN [kind |-> "result", demo_mode |-> TRUE, output |-> "canned " \o agentId, message |-> ""]
    ELSE [kind |-> "result", demo_mode |-> TRUE,
          output |-> "Agent executed successfully in demo mode", message |-> ""]

BackendResult == [kind |-> "result", demo_mode |-> FALSE, output |-> "report", message |-> ""]

\* the 401 branch returns without the finally block
agentHandleExecuteDoneNoFinally(resp) ==
    /\ agentLoading
    /\ lastResponse' = Answer("agents/execute", resp)
    /\ sent' = NoRequest
    /\ IF resp.status = 401
       THEN /\ alertMsg' = "Session expired. Please login again."
            /\ localToken' = NoToken
            /\ route' = LoginRoute
            /\ UNCHANGED <<agentResult, agentLoading>>
       ELSE IF ~resp.ok
       THEN /\ agentResult' = [generateDemoResult(AgentIdOf(route)) EXCEPT
                                 !.message = "API connection failed - showing demo results"]
            /\ alertMsg' = NoAlert
            /\ agentLoading' = FALSE
            /\ UNCHANGED <<localToken, route>>
       ELSE /\ agentResult' = BackendResult
            /\ alertMsg' = NoAlert
            /\ agentLoading' = FALSE
            /\ UNCHANGED <<localToken, route>>
    /\ UNCHANGED <<token, user, agentInput, listVars, docVars, metricsPc>>
    /\ UNCHANGED <<editorVars, execVars>>

\* handleExecute of the agent interface after its fetch settled
agentHandleExecuteDone(resp) ==
    /\ agentLoading
    /\ lastResponse' = Answer("agents/execute", resp)
    /\ sent' = NoRequest
    /\ IF resp.status = 401
       THEN /\ alertMsg' = "Session expired. Please login again."
            /\ localToken' = NoToken
            /\ route' = LoginRoute
            /\ UNCHANGED agentResult
       ELSE IF ~resp.ok
       THEN /\ agentResult' = [generateDemoResult(AgentIdOf(route)) EXCEPT
                                 !.message = "API connection failed - showing demo results"]
            /\ alertMsg' = NoAlert
            /\ UNCHANGED <<localToken, route>>
       ELSE /\ agentResult' = BackendResult
            /\ alertMsg' = NoAlert
            /\ UNCHANGED <<localToken, route>>
    /\ agentLoading' = FALSE
    /\ UNCHANGED <<token, user, agentInput, listVars, docVars, metricsPc>>
    /\ UNCHANGED <<editorVars, execVars>>

\* ------------------------------------------------------ workflows list page
\* fetchWorkflows after workflowApi.list answered
fetchWorkflowsDone(resp) ==
    /\ route = "/workflows"
    /\ listLoading
    /\ lastResponse' = Answer("workflows/list", resp)
    /\ IF resp.ok
       THEN /\ workflows' = SortedIds(serverWorkflows)
            /\ listError' = ""
       ELSE /\ listError' = DetailOr(resp, "Failed to load workflows")
            /\ UNCHANGED workflows
    /\ listLoading' = FALSE
    /\ Quiet
    /\ UNCHANGED <<authVars, agentVars, deletingId, deletesInFlight, runsInFlight,
                   serverWorkflows, docVars, metricsPc>>
    /\ UNCHANGED <<editorVars, execVars>>

Shown(id) == \E i \in 1..Len(workflows) : workflows[i] = id

\* handleDelete up to its await, the confirm dialog accepted; the button of
\* the row is disabled while deletingId is the row's id
handleDelete(id) ==
    /\ route = "/workflows"
    /\ ~listLoading
    /\ Shown(id)
    /\ deletingId # id
    /\ \A d \in deletesInFlight : d.id # id
    /\ deletingId' = id
    /\ deletesInFlight' = deletesInFlight \cup {[id |-> id, workflows |-> workflows]}
    /\ sent' = AxiosRequest("workflows/delete")
    /\ alertMsg' = NoAlert
    /\ lastResponse' = NoResponse
    /\ UNCHANGED <<authVars, agentVars, workflows, listLoading, listError,
                   runsInFlight, serverWorkflows, docVars, metricsPc>>
    /\ UNCHANGED <<editorVars, execVars>>

\* workflows.filter(w => w.id !== id)
WithoutId(list, id) == SelectSeq(list, LAMBDA w : w # id)

\* handleDelete after workflowApi.delete answered; `call` holds the id and the
\* list the handler closed over
handleDeleteDone(call, resp) ==
    /\ call \in deletesInFlight
    /\ lastResponse' = Answer("workflows/delete", resp)
    /\ IF resp.ok
       THEN /\ workflows' = WithoutId(call.workflows, call.id)
            /\ serverWorkflows' = serverWorkflows \ {call.id}
            /\ alertMsg' = NoAlert
       ELSE /\ alertMsg' = DetailOr(resp, "Failed to delete workflow")
            /\ UNCHANGED <<workflows, serverWorkflows>>
    /\ deletingId' = NoId
    /\ deletesInFlight' = deletesInFlight \ {call}
    /\ sent' = NoRequest
    /\ UNCHANGED <<authVars, agentVars, listLoading, listError, runsInFlight,
                   docVars, metricsPc>>
    /\ UNCHANGED <<editorVars, execVars>>

\* handleExecute of the list page up to its await
listHandleExecute(id) ==
    /\ route = "/workflows"
    /\ ~listLoading
    /\ Shown(id)
    /\ id \notin runsInFlight
    /\ runsInFlight' = runsInFlight \cup {id}
    /\ sent' = AxiosRequest("workflows/execute")
    /\ alertMsg' = NoAlert
    /\ lastResponse' = NoResponse
    /\ UNCHANGED <<authVars, agentVars, workflows, listLoading, listError,
                   deletingId, deletesInFlight, serverWorkflows, docVars, metricsPc>>
    /\ UNCHANGED <<editorVars, execVars>>

\* a failed execute request is sent again
listHandleExecuteDoneRetrying(id, resp) ==
    /\ id \in runsInFlight
    /\ lastResponse' = Answer("workflows/execute", resp)
    /\ alertMsg' = IF resp.ok THEN "Workflow execution started successfully!"
                   ELSE NoAlert
    /\ runsInFlight' = IF resp.ok THEN runsInFlight \ {id} ELSE runsInFlight
    /\ sent' = IF resp.ok THEN NoRequest ELSE AxiosRequest("workflows/execute")
    /\ UNCHANGED <<authVars, agentVars, workflows, listLoading, listError,
                   deletingId, deletesInFlight, serverWorkflows, docVars, metricsPc>>
    /\ UNCHANGED <<editorVars, execVars>>

\* handleExecute of the list page after workflowApi.execute answered
listHandleExecuteDone(id, resp) ==
    /\ id \in runsInFlight
    /\ lastResponse' = Answer("workflows/execute", resp)
    /\ alertMsg' = IF resp.ok THEN "Workflow execution started successfully!"
                   ELSE DetailOr(resp, "Failed to execute workflow")
    /\ runsInFlight' = runsInFlight \ {id}
    /\ sent' = NoRequest
    /\ UNCHANGED <<authVars, agentVars, workflows, listLoading, listError,
                   deletingId, deletesInFlight, serverWorkflows, docVars, metricsPc>>
    /\ UNCHANGED <<editorVars, execVars>>

\* ------------------------------------------------------ document Q&A page
DocRoute == "/agents/document-qa"

setFiles(chosen) ==
    /\ route = DocRoute
    /\ ~uploading
    /\ files' = chosen
    /\ lastResponse' = NoResponse
    /\ Quiet
    /\ UNCHANGED <<authVars, agentVars, listVars, uploading, query, queryLoading,
                   queryResult, metricsPc>>
    /\ UNCHANGED <<editorVars, execVars>>

setQuery(value) ==
    /\ route = DocRoute
    /\ ~queryLoading
    /\ query' = value
    /\ lastResponse' = NoResponse
    /\ Quiet
    /\ UNCHANGED <<authVars, agentVars, listVars, files, uploading, queryLoading,
                   queryResult, metricsPc>>
    /\ UNCHANGED <<editorVars, execVars>>

\* `Error: ${error.detail}` of a response without detail reads 'undefined'
ErrorText(resp) == "Error: " \o (IF resp.detail # "" THEN resp.detail ELSE "undefined")

\* handleUpload up to its fetch
handleUpload ==
    /\ route = DocRoute
    /\ ~uploading
    /\ lastResponse' = NoResponse
    /\ IF ~files
       THEN /\ alertMsg' = "Please select files to upload"
            /\ sent' = NoRequest
            /\ UNCHANGED uploading
       ELSE /\ uploading' = TRUE
            /\ sent' = FetchRequest("documents/upload", localToken)
            /\ alertMsg' = NoAlert
    /\ UNCHANGED <<authVars, agentVars, listVars, files, query, queryLoading,
                   queryResult, metricsPc>>
    /\ UNCHANGED <<editorVars, execVars>>

\* handleUpload after its fetch settled; a success reloads the document list
handleUploadDone(resp) ==
    /\ uploading
    /\ lastResponse' = Answer("documents/upload", resp)
    /\ IF resp.ok
       THEN /\ alertMsg' = "Uploaded document(s)"
            /\ files' = FALSE
            /\ sent' = FetchRequest("documents/my-documents", localToken)
       ELSE /\ alertMsg' = IF resp = NetworkError THEN "Failed to upload documents"
                           ELSE ErrorText(resp)
            /\ sent' = NoRequest
            /\ UNCHANGED files
    /\ uploading' = FALSE
    /\ UNCHANGED <<authVars, agentVars, listVars, query, queryLoading, queryResult,
                   metricsPc>>
    /\ UNCHANGED <<editorVars, execVars>>

\* handleQuery up to its fetch
handleQuery ==
    /\ route = DocRoute
    /\ ~queryLoading
    /\ lastResponse' = NoResponse
    /\ IF Trim(query) = <<>>
       THEN /\ alertMsg' = "Please enter a question"
            /\ sent' = NoRequest
            /\ UNCHANGED <<queryLoading, queryResult>>
       ELSE /\ queryLoading' = TRUE
            /\ queryResult' = ""
            /\ sent' = FetchRequest("documents/query", localToken)
            /\ alertMsg' = NoAlert
    /\ UNCHANGED <<authVars, agentVars, listVars, files, uploading, query, metricsPc>>
    /\ UNCHANGED <<editorVars, execVars>>

\* handleQuery after its fetch settled
handleQueryDone(resp) ==
    /\ queryLoading
    /\ lastResponse' = Answer("documents/query", resp)
    /\ queryResult' = IF resp.ok THEN "report"
                      ELSE IF resp = NetworkError THEN "Failed to query documents"
                      ELSE ErrorText(resp)
    /\ queryLoading' = FALSE
    /\ Quiet
    /\ UNCHANGED <<authVars, agentVars, listVars, files, uploading, query, metricsPc>>
    /\ UNCHANGED <<editorVars, execVars>>

\* ------------------------------------------------------- metrics dashboard
\* fetchMetrics after the fetch of /agents/metrics settled: a rejected fetch
\* ends the handler, any response leads on to the fetch of /agents/my-stats
fetchMetricsDone(resp) ==
    /\ metricsPc = "metrics"
    /\ lastResponse' = Answer("agents/metrics", resp)
    /\ IF resp = NetworkError
       THEN /\ metricsPc' = "done"
            /\ sent' = NoRequest
       ELSE /\ metricsPc' = "stats"
            /\ sent' = FetchRequest("agents/my-stats", localToken)
    /\ alertMsg' = NoAlert
    /\ UNCHANGED <<authVars, agentVars, listVars, docVars>>
    /\ UNCHANGED <<editorVars, execVars>>

\* fetchMetrics after the fetch of /agents/my-stats settled
fetchStatsDone(resp) ==
    /\ metricsPc = "stats"
    /\ lastResponse' = Answer("agents/my-stats", resp)
    /\ metricsPc' = "done"
    /\ Quiet
    /\ UNCHANGED <<authVars, agentVars, listVars, docVars>>
    /\ UNCHANGED <<editorVars, execVars>>

\* ------------------------------------------- useWorkflows, useWorkflowExecutions
\* at most this many calls of the hooks' functions await their answer at once
MaxCalls == 2
\* at most this many workflows and executions are created through the hooks
MaxCreated == 1

\* a workflow as the backend returns it; rev tells a replaced entry apart
Workflow(id, rev) == [id |-> id, rev |-> rev]

\* err.message of a rejected axios call
ErrorMessages == {"Request failed with status code 500"}

\* what workflowApi.list answers to the mount effect
FetchedWorkflows == <<Workflow(1, 0)>>

HookIds == 1..(1 + MaxCreated)

NoOutcome == [kind |-> "none"]

\* error: string | null
NoHookError == "null"

\* useState([]), useState(true), useState(null) of both hooks; the mount effect
\* of useWorkflows has called fetchWorkflows, useWorkflowExecutions was given
\* no workflowId
HookIdle ==
    /\ hookWorkflows = <<>>
    /\ hookLoading = TRUE
    /\ hookError = NoHookError
    /\ hookExecutions = <<>>
    /\ hookCalls = {}
    /\ hookCreated = 0
    /\ hookExecuted = 0
    /\ hookOutcome = NoOutcome

HookFrame == UNCHANGED <<editorVars, obsVars, clientVars, executionVars, peerVars, statsVars>>

\* fetchWorkflows after workflowApi.list settled
hookFetchWorkflowsDone(ok, msg) ==
    /\ hookLoading
    /\ IF ok
       THEN /\ hookWorkflows' = FetchedWorkflows
            /\ hookError' = NoHookError
       ELSE /\ hookError' = msg
            /\ UNCHANGED hookWorkflows
    /\ hookLoading' = FALSE
    /\ hookOutcome' = NoOutcome
    /\ UNCHANGED <<hookExecutions, hookCalls, hookCreated, hookExecuted>>
    /\ HookFrame

\* a function of the hooks up to its await: the call holds the `workflows`
\* (for executeWorkflow, the `executions`) of the render the function belongs to
Call(op, id) ==
    [op |-> op, id |-> id,
     held |-> IF op = "execute" THEN hookExecutions ELSE hookWorkflows]

HookCalled(op, id) ==
    /\ Cardinality(hookCalls) < MaxCalls
    /\ Call(op, id) \notin hookCalls
    /\ hookCalls' = hookCalls \cup {Call(op, id)}
    /\ hookOutcome' = NoOutcome
    /\ UNCHANGED <<hookWorkflows, hookLoading, hookError, hookExecutions,
                   hookCreated, hookExecuted>>
    /\ HookFrame

createWorkflow == HookCalled("create", 0)
updateWorkflow(id) == HookCalled("update", id)
deleteWorkflow(id) == HookCalled("delete", id)
executeWorkflow(id) == HookCalled("execute", id)

\* catch (err) { setError(err.message); throw err; }
HookFailed(call, msg) ==
    /\ call \in hookCalls
    /\ hookCalls' = hookCalls \ {call}
    /\ hookError' = msg
    /\ hookOutcome' = [kind |-> "thrown", call |-> call, message |-> msg]
    /\ UNCHANGED <<hookWorkflows, hookLoading, hookExecutions, hookCreated, hookExecuted>>
    /\ HookFrame

\* workflows.map(w => w.id === parseInt(id) ? response.data : w)
ReplaceId(list, id, data) ==
    [i \in 1..Len(list) |-> IF list[i].id = id THEN data ELSE list[i]]

\* workflows.filter(w => w.id !== parseInt(id))
WithoutWorkflow(list, id) == SelectSeq(list, LAMBDA w : w.id # id)

\* the `workflows` a function of useWorkflows computes the new list from
HeldList(call) == call.held

\* setWorkflows([...workflows, response.data]); return response.data
createWorkflowDone(call) ==
    /\ call \in hookCalls
    /\ call.op = "create"
    /\ hookCreated < MaxCreated
    /\ LET data == Workflow(2 + hookCreated, 0) IN
         /\ hookWorkflows' = Append(HeldList(call), data)
         /\ hookOutcome' = [kind |-> "returned", call |-> call, data |-> data]
    /\ hookCreated' = hookCreated + 1
    /\ hookCalls' = hookCalls \ {call}
    /\ UNCHANGED <<hookLoading, hookError, hookExecutions, hookExecuted>>
    /\ HookFrame

\* setWorkflows(workflows.map(...)); return response.data
updateWorkflowDone(call) ==
    /\ call \in hookCalls
    /\ call.op = "update"
    /\ LET data == Workflow(call.id, 1) IN
         /\ hookWorkflows' = ReplaceId(HeldList(call), call.id, data)
         /\ hookOutcome' = [kind |-> "returned", call |-> call, data |-> data]
    /\ hookCalls' = hookCalls \ {call}
    /\ UNCHANGED <<hookLoading, hookError, hookExecutions, hookCreated, hookExecuted>>
    /\ HookFrame

\* setWorkflows(workflows.filter(...))
deleteWorkflowDone(call) ==
    /\ call \in hookCalls
    /\ call.op = "delete"
    /\ hookWorkflows' = WithoutWorkflow(HeldList(call), call.id)
    /\ hookOutcome' = [kind |-> "returned", call |-> call, data |-> Null]
    /\ hookCalls' = hookCalls \ {call}
    /\ UNCHANGED <<hookLoading, hookError, hookExecutions, hookCreated, hookExecuted>>
    /\ HookFrame

\* setExecutions([response.data, ...executions]); return response.data
executeWorkflowDone(call) ==
    /\ call \in hookCalls
    /\ call.op = "execute"
    /\ hookExecuted < MaxCreated
    /\ LET data == hookExecuted + 1 IN
         /\ hookExecutions' = <<data>> \o HeldList(call)
         /\ hookOutcome' = [kind |-> "returned", call |-> call, data |-> data]
    /\ hookExecuted' = hookExecuted + 1
    /\ hookCalls' = hookCalls \ {call}
    /\ UNCHANGED <<hookWorkflows, hookLoading, hookError, hookCreated>>
    /\ HookFrame

\* ========================================================= specification
\* what formData.template can hold: a template, nothing, or a name
\* getTemplateNodes does not know
SubmittedTemplates == Templates \cup {"", "no_such_template"}

Init ==
    /\ loading = TRUE
    /\ error = ""
    /\ workflow = Null
    /\ workflowNodes = <<>>
    /\ saving = FALSE
    /\ executing = FALSE
    /\ testRunPc = "idle"
    /\ testInput = Blank
    /\ executionResult = Null
    /\ sent = NoRequest
    /\ alertMsg = NoAlert
    /\ createLoading = FALSE
    /\ createError = ""
    /\ ExecIdle
    /\ PeerIdle
    /\ StatsIdle
    /\ HookIdle
    /\ ClientAt(CreateRoute)

Next ==
    \/ \E template \in SubmittedTemplates : handleSubmit(template)
    \/ \E resp \in Responses : handleSubmitDone(resp)
    \/ \E resp \in Responses, name \in WorkflowNames, nodes \in LoadedNodeLists :
          route = EditRoute /\ FetchWorkflowDone(resp, name, nodes)
    \/ \E type \in ClickedTypes : route = EditRoute /\ addNode(type)
    \/ \E i \in 1..Len(workflowNodes) :
          route = EditRoute /\ removeNode(workflowNodes[i].id)
    \/ \E i \in 1..Len(workflowNodes) :
          route = EditRoute /\ updateNodeConfig(i, "prompt", TypedPrompt)
    \/ \E i \in 1..Len(workflowNodes) :
          route = EditRoute /\ updateNodeConfig(i, "input", TypedInput)
    \/ route = EditRoute /\ setupEmailSummarizer
    \/ \E value \in TestInputs : route = EditRoute /\ setTestInput(value)
    \/ route = EditRoute /\ handleSave
    \/ \E resp \in Responses : route = EditRoute /\ handleSaveDone(resp)
    \/ route = EditRoute /\ handleTestRun
    \/ \E resp \in Responses : route = EditRoute /\ handleTestRunUpdated(resp)
    \/ \E resp \in Responses, resultStatus \in ExecutionStatuses :
          route = EditRoute /\ handleTestRunExecuted(resp, resultStatus)

Spec == Init /\ [][Next]_vars

\* the editor is not open while the execution is observed
EditorIdle ==
    /\ loading = TRUE
    /\ error = ""
    /\ workflow = Null
    /\ workflowNodes = <<>>
    /\ saving = FALSE
    /\ executing = FALSE
    /\ testRunPc = "idle"
    /\ testInput = Blank
    /\ executionResult = Null
    /\ sent = NoRequest
    /\ alertMsg = NoAlert
    /\ createLoading = FALSE
    /\ createError = ""

ExecutorInit == EditorIdle /\ ExecInit /\ PeerIdle /\ StatsIdle /\ HookIdle /\ ClientIdle

ExecutorNext ==
    \/ StartExecution
    \/ InvokeNode
    \/ \E text \in AgentOutputs : RecordResult(text)
    \/ \E err \in AgentErrors : NodeFails(err)
    \/ CompleteExecution

ExecutorSpec == ExecutorInit /\ [][ExecutorNext]_vars

ClientInit == EditorIdle /\ ExecIdle /\ PeerIdle /\ StatsIdle /\ HookIdle /\ ClientIdle

\* both executions are created, none has started
ConcurrentInit ==
    /\ EditorIdle
    /\ ExecInit
    /\ execNodes \in ConcurrentNodeLists
    /\ peer \in {Pending(nodes) : nodes \in ConcurrentNodeLists}
    /\ current = 1
    /\ StatsIdle
    /\ HookIdle
    /\ ClientIdle

ConcurrentNext == ExecutorNext \/ SwitchExecution

ConcurrentSpec == ConcurrentInit /\ [][ConcurrentNext]_vars

\* the two hooks, mounted
HooksNext ==
    \/ \E ok \in BOOLEAN, msg \in ErrorMessages : hookFetchWorkflowsDone(ok, msg)
    \/ createWorkflow
    \/ \E id \in HookIds : updateWorkflow(id)
    \/ \E id \in HookIds : deleteWorkflow(id)
    \/ \E id \in HookIds : executeWorkflow(id)
    \/ \E call \in hookCalls, msg \in ErrorMessages : HookFailed(call, msg)
    \/ \E call \in hookCalls : createWorkflowDone(call)
    \/ \E call \in hookCalls : updateWorkflowDone(call)
    \/ \E call \in hookCalls : deleteWorkflowDone(call)
    \/ \E call \in hookCalls : executeWorkflowDone(call)

HooksSpec == ClientInit /\ [][HooksNext]_vars

StatsNext ==
    \/ \E usr \in StatUsers, ok \in BOOLEAN, ms \in ResponseTimes :
          RecordExecution(usr, ok, ms)
    \/ DayPasses
    \/ \E usr \in StatUsers, days \in WindowDays : GetMyStats(usr, days)

StatsSpec == ClientInit /\ [][StatsNext]_vars

ClientNext ==
    \/ \E tok \in Tokens, usr \in Users : setAuth(tok, usr)
    \/ Logout
    \/ \E target \in Routes : Navigate(target)
    \/ \E value \in TestInputs : setInput(value)
    \/ agentHandleExecute
    \/ \E resp \in ClientResponses : agentHandleExecuteDone(resp)
    \/ \E resp \in Responses : fetchWorkflowsDone(resp)
    \/ \E id \in WorkflowIds : handleDelete(id)
    \/ \E call \in deletesInFlight, resp \in Responses : handleDeleteDone(call, resp)
    \/ \E id \in WorkflowIds : listHandleExecute(id)
    \/ \E id \in WorkflowIds, resp \in Responses : listHandleExecuteDone(id, resp)
    \/ \E chosen \in BOOLEAN : setFiles(chosen)
    \/ \E value \in TestInputs : setQuery(value)
    \/ handleUpload
    \/ \E resp \in ClientResponses : handleUploadDone(resp)
    \/ handleQuery
    \/ \E resp \in ClientResponses : handleQueryDone(resp)
    \/ \E resp \in ClientResponses : fetchMetricsDone(resp)
    \/ \E resp \in ClientResponses : fetchStatsDone(resp)
    \/ \E template \in SubmittedTemplates : handleSubmit(template)
    \/ \E resp \in Responses : handleSubmitDone(resp)
    \/ \E resp \in Responses, name \in WorkflowNames, nodes \in LoadedNodeLists :
          route = EditRoute /\ FetchWorkflowDone(resp, name, nodes)
    \/ \E value \in TestInputs : route = EditRoute /\ setTestInput(value)
    \/ route = EditRoute /\ handleSave
    \/ \E resp \in Responses : route = EditRoute /\ handleSaveDone(resp)
    \/ route = EditRoute /\ handleTestRun
    \/ \E resp \in Responses : route = EditRoute /\ handleTestRunUpdated(resp)
    \/ \E resp \in Responses, resultStatus \in ExecutionStatuses :
          route = EditRoute /\ handleTestRunExecuted(resp, resultStatus)

ClientSpec == ClientInit /\ [][ClientNext]_vars

\* --------------------------------------------------------- editor claims
\* the workflow_data of the request the step sent, if it carries one
SendsWorkflowData == sent.kind \in {"create", "update"}
SentNodes == sent.workflow_data.nodes
SentEdges == sent.workflow_data.edges

\* C1: the ids of the nodes in the editor's node list are pairwise distinct.
C1_UniqueNodeIds ==
    \A i, j \in 1..Len(workflowNodes) :
        i # j => workflowNodes[i].id # workflowNodes[j].id

\* C2 as stated: every workflow_data sent has nodes.length - 1 edges, the
\* blank workflow included.
C2_EdgeCountAsStated ==
    SendsWorkflowData => Len(SentEdges) = Len(SentNodes) - 1

\* C2: every workflow_data sent has nodes.length - 1 edges when it has nodes,
\* and no edge when it has none.
C2_EdgeCount ==
    SendsWorkflowData =>
        Len(SentEdges) = IF Len(SentNodes) = 0 THEN 0 ELSE Len(SentNodes) - 1

\* Save or Test Run sent a list of three nodes
C2_Witness == sent.kind = "update" /\ Len(SentNodes) = 3

\* C3: in every workflow_data sent, the k-th edge is named edge_k and leads
\* from the k-th to the (k+1)-th node of the node list of the same request.
C3_EdgeChain ==
    SendsWorkflowData =>
        \A k \in 1..Len(SentEdges) :
            /\ k + 1 <= Len(SentNodes)
            /\ SentEdges[k].id = "edge_" \o ToString(k)
            /\ SentEdges[k].source = SentNodes[k].id
            /\ SentEdges[k].target = SentNodes[k + 1].id

\* Test Run sent a chain of at least two edges
C3_Witness ==
    /\ sent.kind = "update"
    /\ testRunPc = "update"
    /\ Len(SentEdges) >= 2

\* C4: in every workflow_data sent, a node id is the source of at most one
\* edge and the target of at most one edge, and no edge is a loop.
C4_NoBranching ==
    SendsWorkflowData =>
        /\ \A k, m \in 1..Len(SentEdges) :
             k # m => /\ SentEdges[k].source # SentEdges[m].source
                      /\ SentEdges[k].target # SentEdges[m].target
        /\ \A k \in 1..Len(SentEdges) : SentEdges[k].source # SentEdges[k].target

\* ------------------------------------------------------- executor claims
\* the position of the latest node before position i that has the id `id`
\* (0 if there is none)
LatestBefore(i, id) ==
    LET earlier == {k \in 1..(i - 1) : execNodes[k].id = id}
    IN IF earlier = {} THEN 0 ELSE CHOOSE k \in earlier : \A m \in earlier : m <= k

\* C5: while the agent of the node at position i runs, the input it was given
\* is the node's input template in which every placeholder naming a node
\* executed before i stands replaced by the text that node returned, and
\* every other token stands as it was; so no such placeholder is left.
C5_PlaceholdersResolved ==
    nodePc = "invoked" =>
        LET call == invocations[Len(invocations)]
            template == execNodes[call.position].input
        IN /\ Len(call.input) = Len(template)
           /\ \A j \in 1..Len(template) :
                LET src == IF template[j].kind = "ref"
                           THEN LatestBefore(call.position, template[j].val)
                           ELSE 0
                IN IF src > 0
                   THEN call.input[j] = outcomes[src] /\ call.input[j].kind = "text"
                   ELSE call.input[j] = template[j]

\* a node with two references to an executed node has been invoked
C5_Witness ==
    /\ nodePc = "invoked"
    /\ Len(invocations) >= 2
    /\ execNodes[Len(invocations)].input = TypedInput
    /\ execNodes[1].id = "node_1"

\* C6: the status only moves pending -> running -> completed or
\* pending -> running -> failed; it never goes back and never leaves
\* completed or failed.
C6_StatusMonotonic ==
    [][status' # status =>
         <<status, status'>> \in {<<"pending", "running">>,
                                  <<"running", "completed">>,
                                  <<"running", "failed">>}]_vars

C6_Witness == status = "failed" /\ Len(outcomes) >= 2

C8_FinalOutput ==
    /\ (status \in {"completed", "failed"}
          /\ \A i \in 1..Len(outcomes) : outcomes[i].kind = "text")
       => status = "completed"
    /\ (status = "completed" /\ Len(execNodes) > 0)
       => /\ Len(outcomes) = Len(execNodes)
          /\ output_data = outcomes[Len(execNodes)]

\* completed, and the first node returned another text than the last
C8_Witness ==
    /\ status = "completed"
    /\ Len(execNodes) >= 2
    /\ outcomes[1] # outcomes[Len(execNodes)]
    /\ execNodes[1].id # execNodes[Len(execNodes)].id

\* C9: the j-th agent call is for the node at position j, and a call is made
\* only when every earlier call has returned and its result is recorded.
C9_SequentialOrder ==
    /\ \A j \in 1..Len(invocations) : invocations[j].position = j
    /\ Len(invocations) <= Len(execNodes)
    /\ Len(invocations) = Len(outcomes) + (IF nodePc = "invoked" THEN 1 ELSE 0)
    /\ \A j \in 1..Len(outcomes) :
         j < Len(invocations) => outcomes[j].kind = "text"

C9_Witness == Len(invocations) = 3 /\ nodePc = "invoked"

\* --------------------------------------------------------- client claims
\* C10: when the step handled a 401 answer, the token is gone from
\* localStorage and the login page is shown.
C10_UnauthorizedForcesLogin ==
    lastResponse.status = 401 => localToken = NoToken /\ route = LoginRoute

\* the step handled a response that reports a failure
RequestFailed == lastResponse.endpoint # "none" /\ lastResponse.status # 200

\* the text the step showed for the response it handled: the alert dialog,
\* or the banner or result box the handler of that endpoint writes to
ShownText ==
    IF alertMsg # NoAlert THEN alertMsg
    ELSE CASE lastResponse.endpoint = "workflows/list" -> listError
           [] lastResponse.endpoint = "workflows/get" -> error
           [] lastResponse.endpoint = "documents/query" -> queryResult
           [] OTHER -> ""

\* C11: when the step handled a failed request and showed a text for it, the
\* text is the error text of the response, unchanged; and after a failed
\* agent request the output panel shows no result.
C11_ErrorsVerbatim ==
    RequestFailed =>
        /\ (ShownText # "" /\ lastResponse.detail # "")
              => ShownText = lastResponse.detail
        /\ lastResponse.endpoint = "agents/execute" => agentResult = NoAgentResult

\* the endpoints a user action has asked by the time the answer of `endpoint`
\* reaches it: Run Test asks update and then execute, the metrics page asks
\* /agents/metrics and then /agents/my-stats, every other action one endpoint
SentBefore(endpoint) ==
    CASE endpoint = "execute" -> {"update", "execute"}
      [] endpoint = "agents/my-stats" -> {"agents/metrics", "agents/my-stats"}
      [] OTHER -> {endpoint}

\* C12: a step that handles the answer to a request, failed or not, sends no
\* request to an endpoint the same user action has already asked; so nothing
\* is sent twice without a new user action.
C12_NoRetry ==
    [][lastResponse'.endpoint # "none"
         => sent'.kind \notin SentBefore(lastResponse'.endpoint)]_vars

\* Run on the list page failed, and nothing was sent in answer
C12_Witness ==
    /\ RequestFailed
    /\ lastResponse.endpoint = "workflows/execute"
    /\ sent = NoRequest
    /\ runsInFlight = {}

\* the requests that go through the shared axios client (workflowApi)
ApiClientEndpoints == {"workflows/list", "workflows/get", "workflows/delete",
                       "workflows/execute", "create", "update", "execute"}

\* C13: a request sent through the shared client carries `Bearer <token>` for
\* the token localStorage holds when it is sent, which is the token of the
\* auth store (the latest setAuth); with no token in localStorage it carries
\* no Authorization header.
C13_BearerHeader ==
    sent.kind \in ApiClientEndpoints =>
        IF localToken # NoToken
        THEN sent.authorization = "Bearer " \o localToken /\ localToken = token
        ELSE sent.authorization = ""

\* Delete was sent under the second token
C13_Witness ==
    /\ sent.kind = "workflows/delete"
    /\ sent.authorization = "Bearer tokenB"

\* ---------------------------------------------------- statistics claims
\* the positions of the recorded executions that are the asked user's and
\* lie in the asked window
Counted ==
    {i \in 1..Len(agentExecutions) :
        /\ agentExecutions[i].user = userStats.user
        /\ today - agentExecutions[i].day < userStats.period_days}

\* the log without its i-th entry
Without(log, i) == SubSeq(log, 1, i - 1) \o SubSeq(log, i + 1, Len(log))

\* C14: the statistics returned for a user and a window of N days count
\* exactly the user's executions of the last N days, the success rate is the
\* share of the successful ones among them, and taking any execution outside
\* the window out of the records leaves both aggregates as they are.
C14_WindowedAggregates ==
    userStats # NoStats =>
        /\ userStats.total_executions = Cardinality(Counted)
        /\ Counted # {} =>
              userStats.success_rate =
                (100 * Cardinality({i \in Counted : agentExecutions[i].ok}))
                   \div Cardinality(Counted)
        /\ \A i \in (1..Len(agentExecutions)) \ Counted :
              LET rest == UserStats(Without(agentExecutions, i), userStats.user,
                                    userStats.period_days, today)
              IN /\ rest.success_rate = userStats.success_rate
                 /\ rest.avg_response_time_ms = userStats.avg_response_time_ms

\* statistics over one day were asked while the user has a failed execution
\* of an earlier day and a successful one of today
C14_Witness ==
    /\ userStats.user = "ada"
    /\ userStats.period_days = 1
    /\ userStats.success_rate = 100
    /\ \E i \in 1..Len(agentExecutions) :
          /\ agentExecutions[i].user = "ada"
          /\ agentExecutions[i].day < today
          /\ ~agentExecutions[i].ok

\* ------------------------------------------------- editor claims, continued
\* the step is an addNode: the editor is shown and the list grows by one node
AddsNode == EditorShown /\ Len(workflowNodes') = Len(workflowNodes) + 1

\* C15: the node an addNode appends has the empty input when the list was
\* empty, and otherwise the one placeholder that names the id of the node
\* right before it in the list.
C15_ConnectsToPrevious ==
    [][AddsNode =>
         LET n == Len(workflowNodes)
         IN workflowNodes'[n + 1].input =
              IF n = 0 THEN <<>> ELSE <<Ref(workflowNodes'[n].id)>>]_vars

\* the step is a click on Run Test with an input that is not blank
StartsTestRun == testRunPc = "idle" /\ testRunPc' = "update"

\* the step is a click on Save
StartsSave == ~saving /\ saving'

\* C16: a Run Test with non-blank input sends the update request with the
\* editor's node list of that moment and the edges between consecutive
\* nodes; the execute request is sent only by the step that handles the OK
\* answer to that update, with the test input; and with blank test input no
\* step but Save sends an update or execute request.
C16_SaveBeforeRun ==
    [][/\ StartsTestRun =>
            /\ Trim(testInput) # <<>>
            /\ sent'.kind = "update"
            /\ sent'.workflow_data.nodes = workflowNodes
            /\ Len(sent'.workflow_data.edges) = Len(workflowNodes) - 1
            /\ \A k \in 1..(Len(workflowNodes) - 1) :
                  /\ sent'.workflow_data.edges[k].source = workflowNodes[k].id
                  /\ sent'.workflow_data.edges[k].target = workflowNodes[k + 1].id
       /\ sent'.kind = "execute" =>
            /\ testRunPc = "update"
            /\ lastResponse'.endpoint = "update"
            /\ lastResponse'.status = 200
            /\ Trim(testInput) # <<>>
            /\ sent'.input_data.text = testInput
       /\ (Trim(testInput) = <<>> /\ ~StartsSave) =>
            sent'.kind \notin {"update", "execute"}]_vars

\* the execute request of a Run Test on two or more nodes is on the wire
C16_Witness ==
    /\ sent.kind = "execute"
    /\ testRunPc = "execute"
    /\ Len(workflowNodes) >= 2
    /\ lastResponse = Answer("update", OkResponse)

\* C17: when the step handled an agent execute request that failed with
\* anything but a 401 (no response at all, or a non-OK status), the output
\* panel holds a demo result with demo_mode true and the message 'API
\* connection failed - showing demo results': the canned one of the page's
\* agent id, or the generic one when the id has no canned entry.
C17_DemoFallback ==
    (lastResponse.endpoint = "agents/execute" /\ lastResponse.status \notin {200, 401})
    => /\ agentResult.kind = "result"
       /\ agentResult.demo_mode = TRUE
       /\ agentResult.message = "API connection failed - showing demo results"
       /\ agentResult.output =
            IF AgentIdOf(route) \in CannedAgentIds
            THEN "canned " \o AgentIdOf(route)
            ELSE "Agent executed successfully in demo mode"

\* the backend answered 500 to the email summarizer
C17_Witness ==
    /\ lastResponse = Answer("agents/execute", ServerError)
    /\ route = AgentRoute
    /\ agentResult.output = "canned email-summarizer"

\* the number of nodes the template comparison table gives for a template
DocumentedNodes(template) ==
    CASE template \in {"email_summarizer", "data_analyzer"} -> 3
      [] template \in {"content_generator", "customer_support", "meeting_notes",
                       "code_reviewer"} -> 2
      [] OTHER -> 0

\* the ids are node_1 .. node_n in order, the first input is empty and the
\* input of every later node is the placeholder of the node before it
WellFormedChain(nodes) ==
    \A i \in 1..Len(nodes) :
        /\ nodes[i].id = NodeId(i)
        /\ nodes[i].input = IF i = 1 THEN <<>> ELSE <<Ref(NodeId(i - 1))>>

\* C18: for every template the create page can submit, the node list is a
\* well-formed chain of as many nodes as documented; for a blank or unknown
\* template the node list and the edge list are empty; and every create
\* request sent carries such a list.
C18_TemplateChains ==
    /\ \A t \in SubmittedTemplates :
          /\ WellFormedChain(SubmitNodes(t))
          /\ Len(SubmitNodes(t)) = DocumentedNodes(t)
          /\ t \notin Templates =>
                WorkflowData(SubmitNodes(t)) = [nodes |-> <<>>, edges |-> <<>>]
    /\ sent.kind = "create" =>
          /\ WellFormedChain(SentNodes)
          /\ Len(SentNodes) \in {DocumentedNodes(t) : t \in SubmittedTemplates}
          /\ Len(SentNodes) = 0 => SentEdges = <<>>

\* the create page submitted a template of three nodes
C18_Witness ==
    /\ sent.kind = "create"
    /\ Len(SentNodes) = 3
    /\ SentNodes[3].input = Placeholder(2)

\* --------------------------------------------------- concurrency claims
\* the results an execution running alone has stored once its agents have
\* returned `outs`, in this order, for the nodes at positions 1, 2, ...
RECURSIVE ResultsAlone(_, _)
ResultsAlone(nodes, outs) ==
    IF outs = <<>> THEN [id \in ExecIds |-> NoResult]
    ELSE LET n == Len(outs)
             before == ResultsAlone(nodes, SubSeq(outs, 1, n - 1))
         IN IF outs[n].kind = "error" THEN before
            ELSE [before EXCEPT ![nodes[n].id] = outs[n]]

\* the execution is as an execution of its node list running alone is after
\* the same answers of its agents: its stored results, the input of each of
\* its agent calls, and at its end its status, output_data and error_message
AsAlone(e) ==
    LET failed == \E i \in 1..Len(e.outcomes) : e.outcomes[i].kind = "error"
    IN /\ e.results = ResultsAlone(e.execNodes, e.outcomes)
       /\ \A j \in 1..Len(e.invocations) :
             e.invocations[j] =
               Invocation(j, e.execNodes,
                          ResultsAlone(e.execNodes, SubSeq(e.outcomes, 1, j - 1)))
       /\ e.status \in {"completed", "failed"} =>
             /\ e.status = IF failed THEN "failed" ELSE "completed"
             /\ e.output_data =
                   IF failed THEN NoOutput
                   ELSE FinalOutput(e.execNodes, ResultsAlone(e.execNodes, e.outcomes))
             /\ e.error_message =
                   IF failed THEN e.outcomes[Len(e.outcomes)].val ELSE ""

\* C19: under every interleaving of the steps of two executions, each of
\* them is as it is when running alone with the same agent answers.
C19_Independent == AsAlone(Running) /\ AsAlone(peer)

\* the two executions are in their second agent call at the same time, and
\* their first nodes, which bear the same id, returned different texts
C19_Witness ==
    /\ nodePc = "invoked"
    /\ peer.nodePc = "invoked"
    /\ Len(outcomes) = 1
    /\ Len(peer.outcomes) = 1
    /\ outcomes[1] # peer.outcomes[1]
    /\ execNodes[1].id = peer.execNodes[1].id

\* --------------------------------------------------- placeholder claims
\* the input is one placeholder and nothing else, as addNode generates it
GeneratedInput(input) == Len(input) = 1 /\ input[1].kind = "ref"

\* C20: every node of the editor's list whose input is a generated
\* placeholder names the id of a node at an earlier position of the list.
C20_PlaceholdersPointBack ==
    \A i \in 1..Len(workflowNodes) :
        GeneratedInput(workflowNodes[i].input) =>
            \E j \in 1..(i - 1) : workflowNodes[j].id = workflowNodes[i].input[1].val

\* ---------------------------------------------------- list page claims
\* C21: a workflow whose delete request has succeeded and that has left the
\* displayed list is not in the displayed list after any later step.
C21_DeletedStaysGone ==
    [][\A id \in WorkflowIds :
         (id \notin serverWorkflows /\ ~Shown(id)) => ~Shown(id)']_vars

\* C22: while a delete request for a workflow is in flight, deletingId is
\* the id of that workflow, so that the delete button of its row is disabled.
C22_ButtonDisabledInFlight ==
    \A call \in deletesInFlight : deletingId = call.id

\* ---------------------------------------------------------- auth claims
\* C23: the auth store holds a token exactly when localStorage holds one,
\* then both hold the same token; and the store holds a token exactly when
\* it holds a user.
C23_StoreAgreesWithLocalStorage ==
    /\ isAuthenticated <=> localToken # NoToken
    /\ localToken # NoToken => localToken = token
    /\ token = NoToken <=> user = NoUser

\* the step just taken answered a request to `endpoint`
Answered(endpoint) == lastResponse'.endpoint = endpoint

\* C24: every handler that sets a busy flag has reset it when it finishes:
\* after the answer of its request, whether success or failure, and after an
\* early return (blank input, missing token, 401), loading, saving,
\* executing, uploading and the create page's loading are false and
\* deletingId is null.
C24_BusyFlagsReset ==
    [][/\ Answered("agents/execute") => ~agentLoading'
       /\ alertMsg' \in {"Please enter some input text",
                         "Not logged in. Please login again.",
                         "Session expired. Please login again."} => ~agentLoading'
       /\ alertMsg' = "Please enter test input (e.g., an email to summarize)"
             => ~executing'
       /\ alertMsg' = "Please select files to upload" => ~uploading'
       /\ alertMsg' = "Please enter a question" => ~queryLoading'
       /\ (Answered("update") /\ testRunPc' = testRunPc) => ~saving'
       /\ (Answered("update") /\ testRunPc' # testRunPc /\ lastResponse'.status # 200)
             => ~executing'
       /\ Answered("execute") => ~executing'
       /\ Answered("create") => ~createLoading'
       /\ Answered("documents/upload") => ~uploading'
       /\ Answered("documents/query") => ~queryLoading'
       /\ Answered("workflows/delete") => deletingId' = NoId]_vars

\* the agent interface was answered 401 and is no longer loading
C24_Witness ==
    /\ lastResponse = Answer("agents/execute", Unauthorized)
    /\ route = LoginRoute
    /\ ~agentLoading

\* C25: the agent interface sends an execute request only with a non-blank
\* input and a token in localStorage.  An invocation with blank input sends
\* nothing and leaves the result as it is, so an empty result stays empty;
\* an invocation without token sends nothing, leaves the result empty and
\* navigates to /auth/login.
C25_NoRequestWithoutInputOrToken ==
    [][/\ sent'.kind = "agents/execute"
             => (Trim(agentInput) # <<>> /\ localToken # NoToken)
       /\ alertMsg' = "Please enter some input text"
             => /\ Trim(agentInput) = <<>>
                /\ sent' = NoRequest
                /\ agentResult' = agentResult
                /\ ~agentLoading'
       /\ alertMsg' = "Not logged in. Please login again."
             => /\ localToken = NoToken
                /\ sent' = NoRequest
                /\ agentResult' = NoAgentResult
                /\ route' = LoginRoute]_vars

\* the agent interface was run without token: login page, nothing shown
C25_Witness ==
    /\ alertMsg = "Not logged in. Please login again."
    /\ route = LoginRoute
    /\ localToken = NoToken
    /\ agentResult = NoAgentResult
    /\ sent = NoRequest

\* C26: a workflow API request (list, get, create, update, delete, execute)
\* is only sent while the user is authenticated: whenever the step just
\* taken sent one, the auth store holds a token.
C26_NoWorkflowRequestUnauthenticated ==
    sent.kind \in ApiClientEndpoints => isAuthenticated

\* `after` is `nodes` without its i-th element, the others as they were
DropsOnly(nodes, i, after) ==
    after = SubSeq(nodes, 1, i - 1) \o SubSeq(nodes, i + 1, Len(nodes))

\* C27: removeNode invoked on a node of the editor removes exactly that node:
\* the list is one shorter and is the old list without that one element, all
\* other nodes with their id, type, prompt and input in the same order.
C27_RemovesExactlyOne ==
    [][\A i \in 1..Len(workflowNodes) :
          removeNode(workflowNodes[i].id) =>
              /\ Len(workflowNodes') = Len(workflowNodes) - 1
              /\ DropsOnly(workflowNodes, i, workflowNodes')]_vars

\* ----------------------------------------------------------- hook claims
\* the call that just finished
Finished == hookOutcome'.call

\* C28: a failed createWorkflow, updateWorkflow, deleteWorkflow or
\* executeWorkflow leaves the held lists as they are, sets error to the
\* failure's message and rethrows; a successful createWorkflow appends the
\* new workflow at the end of the held list, updateWorkflow replaces only the
\* entry with the given id, deleteWorkflow removes only that entry, and
\* executeWorkflow puts the new execution in front of the executions list.
C28_HookLists ==
    [][/\ hookOutcome'.kind = "thrown" =>
             /\ hookWorkflows' = hookWorkflows
             /\ hookExecutions' = hookExecutions
             /\ hookError' = hookOutcome'.message
       /\ hookOutcome'.kind = "returned" =>
             /\ Finished.op = "create" =>
                   hookWorkflows' = Append(hookWorkflows, hookOutcome'.data)
             /\ Finished.op = "update" =>
                   hookWorkflows' = ReplaceId(hookWorkflows, Finished.id, hookOutcome'.data)
             /\ Finished.op = "delete" =>
                   hookWorkflows' = WithoutWorkflow(hookWorkflows, Finished.id)
             /\ Finished.op = "execute" =>
                   hookExecutions' = <<hookOutcome'.data>> \o hookExecutions]_vars

====
